---------------------------- MODULE Spec2Model ----------------------------
(***************************************************************************)
(* Model of the aggregation pipeline of latest-medi-papers                 *)
(* (src/data_fetcher.py): the date normaliser extract_date, the RSS        *)
(* workers fetch_single_feed run by a thread pool, the merge loop of       *)
(* fetch_all_feeds, the arXiv fetch, process_data and the recency filter.  *)
(*                                                                         *)
(* Text is modelled as a sequence of one-character strings so that the     *)
(* regular expressions of extract_date are run on characters.              *)
(***************************************************************************)
EXTENDS Integers, Sequences, FiniteSets, Bags, TLC

VARIABLES
  backend,       \* what the feed servers and the arXiv API answer (static)
  days,          \* the argument of get_ai_medicine_news
  now,           \* the value datetime.now() returns, in hours
  submitted,     \* number of futures executor.submit has created
  fstate,        \* fstate[f]: state of the future of feed f
  entries,       \* entries[f]: the local dict "entries" of worker f
  errors,        \* the "Error ..." lines printed so far
  pc,            \* position of the thread that runs fetch_all_feeds
  cur,           \* the future the as_completed loop is handling, 0 if none
  key,           \* position of "for key in all_entries", 0 if not merging
  yielded,       \* the futures as_completed has yielded and the loop merged
  all_entries,   \* the dict all_entries
  rss_df, arxiv_df, combined_df, processed_df,
  run,           \* which call of get_ai_medicine_news this is
  first,         \* what the first call returned (two-call runs)
  date_str, date_out, date_pc   \* one call of extract_date

dvars == <<date_str, date_out, date_pc>>

ivars == <<backend, days, now>>

pvars == <<submitted, fstate, entries, errors, pc, cur, key, yielded,
           all_entries, rss_df, arxiv_df, combined_df, processed_df>>

\* What no step of one call changes.
fixed == <<ivars, run, first, dvars>>

vars == <<ivars, pvars, run, first, dvars>>

(***************************************************************************)
(* Characters and the character classes of Python's re module.             *)
(***************************************************************************)
Digits == {"0","1","2","3","4","5","6","7","8","9"}

LowerLetters ==
  {"a","b","c","d","e","f","g","h","i","j","k","l","m",
   "n","o","p","q","r","s","t","u","v","w","x","y","z"}

UpperLetters ==
  {"A","B","C","D","E","F","G","H","I","J","K","L","M",
   "N","O","P","Q","R","S","T","U","V","W","X","Y","Z"}

ToLower ==
  "A" :> "a" @@ "B" :> "b" @@ "C" :> "c" @@ "D" :> "d" @@ "E" :> "e" @@
  "F" :> "f" @@ "G" :> "g" @@ "H" :> "h" @@ "I" :> "i" @@ "J" :> "j" @@
  "K" :> "k" @@ "L" :> "l" @@ "M" :> "m" @@ "N" :> "n" @@ "O" :> "o" @@
  "P" :> "p" @@ "Q" :> "q" @@ "R" :> "r" @@ "S" :> "s" @@ "T" :> "t" @@
  "U" :> "u" @@ "V" :> "v" @@ "W" :> "w" @@ "X" :> "x" @@ "Y" :> "y" @@
  "Z" :> "z"

Lower(c) == IF c \in UpperLetters THEN ToLower[c] ELSE c

DigitValue ==
  "0" :> 0 @@ "1" :> 1 @@ "2" :> 2 @@ "3" :> 3 @@ "4" :> 4 @@
  "5" :> 5 @@ "6" :> 6 @@ "7" :> 7 @@ "8" :> 8 @@ "9" :> 9

\* \d, \w, \s and a literal character, as re matches them on str patterns.
ClassMatch(cls, c) ==
  CASE cls = "\\d" -> c \in Digits
    [] cls = "\\w" -> c \in Digits \cup LowerLetters \cup UpperLetters \cup {"_"}
    [] cls = "\\s" -> c = " "
    [] OTHER -> c = cls

\* Slice s[i..j-1].
Slice(s, i, j) == [k \in 1..(j - i) |-> s[i + k - 1]]

RECURSIVE StrToInt(_)
StrToInt(ds) ==
  IF ds = <<>> THEN 0
  ELSE 10 * StrToInt(SubSeq(ds, 1, Len(ds) - 1)) + DigitValue[ds[Len(ds)]]

(***************************************************************************)
(* A backtracking matcher for patterns that are sequences of quantified    *)
(* character classes: element [cls, lo, hi] is cls{lo,hi}, hi = -1 for an  *)
(* unbounded "+".  Quantifiers are greedy, as in re.                       *)
(***************************************************************************)
RECURSIVE Run(_, _, _, _)
\* The longest run of cls characters from position i, at most hi long.
Run(s, i, cls, hi) ==
  IF hi = 0 \/ i > Len(s) \/ ~ClassMatch(cls, s[i]) THEN 0
  ELSE 1 + Run(s, i + 1, cls, IF hi < 0 THEN hi ELSE hi - 1)

RECURSIVE MatchHere(_, _, _)
RECURSIVE TryCount(_, _, _, _)
\* The first successful path of pat at position i, as the positions
\* <<i, end of element 1, ..., end of element k>> (ends exclusive), or <<>>.
MatchHere(s, i, pat) ==
  IF pat = <<>> THEN <<i>>
  ELSE TryCount(s, i, pat, Run(s, i, Head(pat).cls, Head(pat).hi))

TryCount(s, i, pat, n) ==
  IF n < Head(pat).lo THEN <<>>
  ELSE LET rest == MatchHere(s, i + n, Tail(pat))
       IN  IF rest # <<>> THEN <<i>> \o rest
           ELSE TryCount(s, i, pat, n - 1)

\* (?:\w+,\s+)?
WeekdayPrefix ==
  << [cls |-> "\\w", lo |-> 1, hi |-> -1],
     [cls |-> ",",   lo |-> 1, hi |-> 1],
     [cls |-> "\\s", lo |-> 1, hi |-> -1] >>

\* (\d{1,2}\s+\w{3}\s+\d{4})
DayMonYear ==
  << [cls |-> "\\d", lo |-> 1, hi |-> 2],
     [cls |-> "\\s", lo |-> 1, hi |-> -1],
     [cls |-> "\\w", lo |-> 3, hi |-> 3],
     [cls |-> "\\s", lo |-> 1, hi |-> -1],
     [cls |-> "\\d", lo |-> 4, hi |-> 4] >>

\* (\d{4}-\d{2}-\d{2})
IsoDate ==
  << [cls |-> "\\d", lo |-> 4, hi |-> 4],
     [cls |-> "-",   lo |-> 1, hi |-> 1],
     [cls |-> "\\d", lo |-> 2, hi |-> 2],
     [cls |-> "-",   lo |-> 1, hi |-> 1],
     [cls |-> "\\d", lo |-> 2, hi |-> 2] >>

\* pattern1 tried at one start position: with the optional prefix first,
\* then without it.  The value is the text of group 1, or <<>>.
Pattern1At(s, i) ==
  LET pre == MatchHere(s, i, WeekdayPrefix \o DayMonYear)
      bare == MatchHere(s, i, DayMonYear)
  IN  IF pre # <<>> THEN Slice(s, pre[4], pre[9])
      ELSE IF bare # <<>> THEN Slice(s, bare[1], bare[6])
      ELSE <<>>

Pattern2At(s, i) ==
  LET m == MatchHere(s, i, IsoDate)
  IN  IF m # <<>> THEN Slice(s, m[1], m[6]) ELSE <<>>

\* re.match in place of re.search: pattern1 tried at the start only.
Match1(s) == Pattern1At(s, 1)

\* re.search: the match at the leftmost start position that has one.
Search1(s) ==
  LET starts == {i \in 1..(Len(s) + 1) : Pattern1At(s, i) # <<>>}
  IN  IF starts = {} THEN <<>>
      ELSE Pattern1At(s, CHOOSE i \in starts : \A j \in starts : i <= j)

Search2(s) ==
  LET starts == {i \in 1..(Len(s) + 1) : Pattern2At(s, i) # <<>>}
  IN  IF starts = {} THEN <<>>
      ELSE Pattern2At(s, CHOOSE i \in starts : \A j \in starts : i <= j)

(***************************************************************************)
(* Calendar dates.  NaT is pandas' missing timestamp.                      *)
(***************************************************************************)
Timestamp(y, m, d) == [kind |-> "ts", year |-> y, month |-> m, day |-> d]

NaT == [kind |-> "NaT", year |-> 0, month |-> 0, day |-> 0]

\* An exception raised inside the try block of extract_date.
Raised == [kind |-> "raise", year |-> 0, month |-> 0, day |-> 0]

IsLeap(y) == (y % 4 = 0 /\ y % 100 # 0) \/ y % 400 = 0

DaysInMonth(y, m) ==
  CASE m \in {1, 3, 5, 7, 8, 10, 12} -> 31
    [] m \in {4, 6, 9, 11} -> 30
    [] OTHER -> IF IsLeap(y) THEN 29 ELSE 28

ValidDate(y, m, d) ==
  /\ y >= 1
  /\ m \in 1..12
  /\ d >= 1
  /\ d <= DaysInMonth(y, m)

MonthAbbr ==
  << <<"j","a","n">>, <<"f","e","b">>, <<"m","a","r">>, <<"a","p","r">>,
     <<"m","a","y">>, <<"j","u","n">>, <<"j","u","l">>, <<"a","u","g">>,
     <<"s","e","p">>, <<"o","c","t">>, <<"n","o","v">>, <<"d","e","c">> >>

\* %b: the month whose abbreviation the three characters are, case ignored;
\* 0 when they are no month.
MonthOf(w) ==
  LET lw == [k \in 1..Len(w) |-> Lower(w[k])]
  IN  IF \E m \in 1..12 : MonthAbbr[m] = lw
      THEN CHOOSE m \in 1..12 : MonthAbbr[m] = lw
      ELSE 0

\* pd.to_datetime(text, format='%d %b %Y'): the timestamp, or Raised.
to_datetime_dby(text) ==
  LET p == MatchHere(text, 1, DayMonYear)
  IN  IF p = <<>> \/ p[6] # Len(text) + 1 THEN Raised
      ELSE LET d == StrToInt(Slice(text, p[1], p[2]))
               m == MonthOf(Slice(text, p[3], p[4]))
               y == StrToInt(Slice(text, p[5], p[6]))
           IN  IF ValidDate(y, m, d)
               THEN Timestamp(y, m, d)
               ELSE Raised

\* pd.to_datetime(text) on a YYYY-MM-DD text: the timestamp, or Raised.
to_datetime_iso(text) ==
  LET y == StrToInt(Slice(text, 1, 5))
      m == StrToInt(Slice(text, 6, 8))
      d == StrToInt(Slice(text, 9, 11))
  IN  IF ValidDate(y, m, d)
      THEN Timestamp(y, m, d)
      ELSE Raised

\* The try body of extract_date: a timestamp, NaT, or Raised.
ExtractDateBody(s) ==
  LET m1 == Search1(s)
      m2 == Search2(s)
  IN  IF m1 # <<>> THEN to_datetime_dby(m1)
      ELSE IF m2 # <<>> THEN to_datetime_iso(m2)
      ELSE NaT

\* extract_date: the bare except turns every exception into NaT.
extract_date(s) ==
  LET r == ExtractDateBody(s)
  IN  IF r = Raised THEN NaT ELSE r

(***************************************************************************)
(* Raw date strings given to extract_date: prefix, core and suffix.        *)
(***************************************************************************)
DatePrefixes ==
  { <<>>,
    <<"M","o","n",","," ">>,
    <<"P","o","s","t","e","d"," ">>,
    <<"x">> }

DateCores ==
  { <<"1","4"," ","A","p","r"," ","2","0","2","5">>,
    <<"5"," ","a","p","r"," ","2","0","2","5">>,
    <<"3","0"," ","F","e","b"," ","2","0","2","5">>,
    <<"1","4"," ","X","y","z"," ","2","0","2","5">>,
    <<"1","4"," ","A","p","r","i","l"," ","2","0","2","5">>,
    <<"A","p","r"," ","1","4",","," ","2","0","2","5">>,
    <<"2","0","2","5","-","0","4","-","1","4">>,
    <<"2","0","2","4","-","0","2","-","2","9">>,
    <<"2","0","2","5","-","0","2","-","3","0">>,
    <<"2","0","2","5","-","4","-","1","4">>,
    <<"N","o"," ","D","a","t","e">>,
    <<"s","o","m","e","t","i","m","e"," ","l","a","s","t"," ","w","e","e","k">>,
    <<>> }

DateSuffixes ==
  { <<>>,
    <<" ","1","0",":","0","0",":","0","0"," ","G","M","T">>,
    <<"T","0","9",":","3","0",":","0","0","Z">>,
    <<" ","1","5"," ","M","a","y"," ","2","0","2","4">> }

RawDates == {p \o c \o x : p \in DatePrefixes, c \in DateCores, x \in DateSuffixes}

(***************************************************************************)
(* Texts other than dates are kept by their sizes: the characters inside   *)
(* markup tags and the characters of plain text.                           *)
(***************************************************************************)
Text(m, n) == [markup |-> m, text |-> n]

EmptyText == Text(0, 0)

TextLen(t) == t.markup + t.text

\* clean_html: soup.get_text() keeps the plain text only.
clean_html(t) == Text(0, t.text)

\* The longest description kept whole (the lambda of process_data).
DescriptionLimit == 300

\* clean_html(x)[:300] + '...' if len(clean_html(x)) > 300 else clean_html(x)
SanitizeDescription(x) ==
  IF TextLen(clean_html(x)) > DescriptionLimit
  THEN Text(0, DescriptionLimit + 3)
  ELSE clean_html(x)

(***************************************************************************)
(* Raw date strings held in records are TLA+ strings; Chars gives the      *)
(* characters of each, which is what extract_date reads.                   *)
(***************************************************************************)
Chars ==
  ("Mon, 14 Apr 2025 10:00:00 GMT" :>
     <<"M","o","n",","," ","1","4"," ","A","p","r"," ","2","0","2","5",
       " ","1","0",":","0","0",":","0","0"," ","G","M","T">>) @@
  ("2025-04-14T09:30:00Z" :>
     <<"2","0","2","5","-","0","4","-","1","4","T","0","9",":","3","0",
       ":","0","0","Z">>) @@
  ("Tue, 11 Mar 2025 08:00:00 GMT" :>
     <<"T","u","e",","," ","1","1"," ","M","a","r"," ","2","0","2","5",
       " ","0","8",":","0","0",":","0","0"," ","G","M","T">>) @@
  ("2025-03-21" :> <<"2","0","2","5","-","0","3","-","2","1">>) @@
  ("2025-04-25T18:00:00Z" :>
     <<"2","0","2","5","-","0","4","-","2","5","T","1","8",":","0","0",
       ":","0","0","Z">>) @@
  ("sometime last week" :>
     <<"s","o","m","e","t","i","m","e"," ","l","a","s","t"," ","w","e",
       "e","k">>) @@
  ("No Date" :> <<"N","o"," ","D","a","t","e">>) @@
  ("" :> <<>>)

(***************************************************************************)
(* Timestamps are compared as instants, counted in hours.                  *)
(***************************************************************************)
RECURSIVE DaysBeforeMonth(_, _)
DaysBeforeMonth(y, m) ==
  IF m = 1 THEN 0 ELSE DaysBeforeMonth(y, m - 1) + DaysInMonth(y, m - 1)

\* date.toordinal(): 1 for 0001-01-01.
ToOrdinal(ts) ==
  LET y == ts.year - 1
  IN  y * 365 + (y \div 4) - (y \div 100) + (y \div 400)
        + DaysBeforeMonth(ts.year, ts.month) + ts.day

Instant(ts, hour) == ToOrdinal(ts) * 24 + hour

\* timedelta(days=d)
timedelta(d) == d * 24

(***************************************************************************)
(* Configuration and bounds.                                               *)
(***************************************************************************)
\* The source labels of AI_MEDICINE_FEEDS, in dict order.
AI_MEDICINE_FEEDS ==
  << "Science Daily", "Nature", "MIT Technology Review", "Medical Futurist",
     "VentureBeat", "BMJ", "Healthcare IT News",
     "Frontiers in Digital Health" >>

max_workers == 10

\* Number of feeds of the registry that are configured in the model.
NumFeeds == 2

\* Most entries one feed document or one arXiv answer holds.
MaxEntries == 2

Feeds == 1..NumFeeds

ArxivSource == NumFeeds + 1

\* The keys of entries / all_entries, in insertion order.
Keys == <<"Title", "Link", "Published", "Description", "Source">>

\* {"Title": [], "Link": [], "Published": [], "Description": [], "Source": []}
EmptyEntries ==
  [Title |-> <<>>, Link |-> <<>>, Published |-> <<>>, Description |-> <<>>,
   Source |-> <<>>]

\* all_entries kept from the call before instead of created anew.
StaleEntries == all_entries

\* Line 190: all_entries of one call of fetch_all_feeds.
FreshEntries == EmptyEntries

\* dict.get(k, default)
Get(d, k, default) == IF k \in DOMAIN d THEN d[k] ELSE default

(***************************************************************************)
(* The static backend: what each feed URL and the arXiv API serve.         *)
(* A feed document is [entries, fail]: fail = "parse" when                 *)
(* feedparser.parse raises, "next" when reading the entry after the listed *)
(* ones raises, "none" otherwise.  An entry is a dict; one whose           *)
(* description and summary are empty and whose content is the empty list   *)
(* makes the content lookup raise IndexError.                              *)
(***************************************************************************)
Absent == "<absent>"

\* Published values handed out to the entries of a backend, cyclically.
Tape ==
  << "Mon, 14 Apr 2025 10:00:00 GMT", "2025-04-14T09:30:00Z", Absent,
     "Tue, 11 Mar 2025 08:00:00 GMT", "2025-03-21", "2025-04-25T18:00:00Z",
     "sometime last week" >>

\* Entry j of source s gets place rot + (j - 1) * (number of sources) + s.
PubAt(rot, s, j) ==
  Tape[((rot + (j - 1) * (NumFeeds + 1) + (s - 1)) % Len(Tape)) + 1]

EntryBody(j, bad) ==
  IF bad
  THEN [description |-> EmptyText, summary |-> EmptyText, content |-> <<>>]
  ELSE CASE j % 3 = 1 -> [description |-> Text(12, 301)]
         [] j % 3 = 2 -> [summary |-> Text(0, 40)]
         [] OTHER -> [content |-> << [value |-> Text(4, 20)] >>]

MakeEntry(s, j, pub, bad) ==
  LET id == [title |-> <<s, j>>, link |-> <<s, j>>]
      dated == IF pub = Absent THEN id ELSE id @@ [published |-> pub]
  IN  dated @@ EntryBody(j, bad)

\* A document of n entries; with fail = "fields" the last one is malformed.
MakeDoc(rot, s, n, fail) ==
  [entries |-> [j \in 1..n |->
                  MakeEntry(s, j, PubAt(rot, s, j), fail = "fields" /\ j = n)],
   fail |-> IF fail = "fields" THEN "none" ELSE fail]

FeedOptions ==
  {<<n, "none">> : n \in 0..MaxEntries} \cup {<<0, "parse">>}
    \cup {<<n, "next">> : n \in 1..MaxEntries}
    \cup {<<n, "fields">> : n \in 1..MaxEntries}

ArxivOptions == {<<MaxEntries, "none">>, <<0, "parse">>}

MakeBackend(rot, opt, aopt) ==
  [rss |-> [f \in Feeds |-> MakeDoc(rot, f, opt[f][1], opt[f][2])],
   arxiv |-> MakeDoc(rot, ArxivSource, aopt[1], aopt[2])]

(***************************************************************************)
(* fetch_single_feed, one worker per feed.                                 *)
(***************************************************************************)
\* Lines 100-104: the description, or "raise" for the IndexError of [0].
DescriptionOf(entry) ==
  LET d1 == Get(entry, "description", EmptyText)
      d2 == IF TextLen(d1) = 0 THEN Get(entry, "summary", EmptyText) ELSE d1
  IN  IF TextLen(d2) # 0 THEN [raise |-> FALSE, value |-> d2]
      ELSE LET c == Get(entry, "content", << [value |-> EmptyText] >>)
           IN  IF c = <<>> THEN [raise |-> TRUE, value |-> EmptyText]
               ELSE [raise |-> FALSE, value |-> Get(c[1], "value", EmptyText)]

\* Lines 95-97: the three appends made before the description is read.
AppendHead(acc, entry) ==
  [acc EXCEPT !.Title = Append(@, Get(entry, "title", "No Title")),
              !.Link = Append(@, Get(entry, "link", "No Link")),
              !.Published = Append(@, Get(entry, "published", "No Date"))]

\* Lines 106-107.
AppendTail(acc, description, source) ==
  [acc EXCEPT !.Description = Append(@, description),
              !.Source = Append(@, source)]

\* A pool thread takes the work item: lines 88-92.
WorkerStart(f) ==
  /\ fstate[f] = "pending"
  /\ Cardinality({g \in Feeds : fstate[g] = "running"}) < max_workers
  /\ entries' = [entries EXCEPT ![f] = EmptyEntries]
  /\ IF backend.rss[f].fail = "parse"
     THEN /\ errors' = errors \cup {AI_MEDICINE_FEEDS[f]}
          /\ fstate' = [fstate EXCEPT ![f] = "finished"]
     ELSE /\ fstate' = [fstate EXCEPT ![f] = "running"]
          /\ UNCHANGED errors
  /\ UNCHANGED fixed
  /\ UNCHANGED <<submitted, pc, cur, key, yielded, all_entries, rss_df,
                 arxiv_df, combined_df, processed_df>>

\* One iteration of "for entry in feed.entries": lines 94-107.
WorkerEntry(f) ==
  /\ fstate[f] = "running"
  /\ Len(entries[f].Title) < Len(backend.rss[f].entries)
  /\ LET entry == backend.rss[f].entries[Len(entries[f].Title) + 1]
         d == DescriptionOf(entry)
         head == AppendHead(entries[f], entry)
     IN  IF d.raise
         THEN /\ entries' = [entries EXCEPT ![f] = head]
              /\ errors' = errors \cup {AI_MEDICINE_FEEDS[f]}
              /\ fstate' = [fstate EXCEPT ![f] = "finished"]
         ELSE /\ entries' = [entries EXCEPT ![f] =
                               AppendTail(head, d.value, AI_MEDICINE_FEEDS[f])]
              /\ UNCHANGED <<errors, fstate>>
  /\ UNCHANGED fixed
  /\ UNCHANGED <<submitted, pc, cur, key, yielded, all_entries, rss_df,
                 arxiv_df, combined_df, processed_df>>

\* The loop ends, or reading the next entry raises; line 112 returns.
WorkerReturn(f) ==
  /\ fstate[f] = "running"
  /\ Len(entries[f].Title) = Len(backend.rss[f].entries)
  /\ errors' = IF backend.rss[f].fail = "next"
               THEN errors \cup {AI_MEDICINE_FEEDS[f]}
               ELSE errors
  /\ fstate' = [fstate EXCEPT ![f] = "finished"]
  /\ UNCHANGED fixed
  /\ UNCHANGED <<entries, submitted, pc, cur, key, yielded, all_entries,
                 rss_df, arxiv_df, combined_df, processed_df>>

(***************************************************************************)
(* fetch_arxiv_papers, pd.DataFrame, process_data and the recency filter.  *)
(* A DataFrame is the sequence of its rows.                                *)
(***************************************************************************)
\* pd.DataFrame(d) for a dict of lists: "raise" (ValueError) unless all
\* lists have the same length.
DataFrame(d) ==
  IF \A k \in DOMAIN d : Len(d[k]) = Len(d.Title)
  THEN [raise |-> FALSE,
        rows |-> [i \in 1..Len(d.Title) |->
                    [Title |-> d.Title[i], Link |-> d.Link[i],
                     Published |-> d.Published[i],
                     Description |-> d.Description[i],
                     Source |-> d.Source[i]]]]
  ELSE [raise |-> TRUE, rows |-> <<>>]

RECURSIVE ArxivEntries(_, _)
\* Lines 126-142 on the first n entries of the answer.
ArxivEntries(doc, n) ==
  IF n = 0 THEN EmptyEntries
  ELSE LET acc == ArxivEntries(doc, n - 1)
           entry == doc.entries[n]
       IN  [acc EXCEPT
              !.Title = Append(@, Get(entry, "title", "")),
              !.Link = Append(@, Get(entry, "link", "")),
              !.Published = Append(@, Get(entry, "published", "")),
              !.Description = Append(@, Get(entry, "summary", EmptyText)),
              !.Source = Append(@, "arXiv")]

\* fetch_arxiv_papers: the frame, or the empty frame when anything raised.
fetch_arxiv_papers(doc) ==
  IF doc.fail # "none" THEN <<>>
  ELSE DataFrame(ArxivEntries(doc, Len(doc.entries))).rows

RemoveAt(s, i) == SubSeq(s, 1, i - 1) \o SubSeq(s, i + 1, Len(s))

\* The frame left in merge order.
Unsorted(rows) == {rows}

RECURSIVE SortOutcomes(_)
\* df.sort_values(by='date', ascending=False) with the default
\* kind='quicksort', which is not stable: every order of the rows with the
\* dates descending is a possible outcome.
SortOutcomes(rows) ==
  IF rows = <<>> THEN {<<>>}
  ELSE LET tops == {i \in DOMAIN rows : \A j \in DOMAIN rows :
                      ToOrdinal(rows[i].date) >= ToOrdinal(rows[j].date)}
       IN  UNION {{<<rows[i]>> \o rest : rest \in SortOutcomes(RemoveAt(rows, i))}
                  : i \in tops}

\* A missing date replaced by the day of the call (fillna).
DateOfRowDefaulted(r) ==
  IF extract_date(Chars[r.Published]) = NaT THEN Timestamp(2025, 4, 20)
  ELSE extract_date(Chars[r.Published])

\* Line 157 and line 160: the date of a row, and whether dropna keeps it.
DateOfRow(r) == extract_date(Chars[r.Published])

KeepsRow(r) == DateOfRow(r) # NaT

\* Lines 163-168 on one row that dropna kept.
CleanRow(r) ==
  [Title |-> r.Title, Link |-> r.Link,
   Description |-> SanitizeDescription(r.Description),
   Source |-> r.Source, date |-> DateOfRow(r)]

\* process_data: the set of frames it can return.  The topic columns of
\* lines 174-180 are functions of Title and Description of the row alone
\* and are left out; with the texts of this model no statement of the try
\* block raises.
process_data(df) ==
  IF df = <<>> THEN {df}
  ELSE LET kept == SelectSeq(df, KeepsRow)
       IN  SortOutcomes([i \in 1..Len(kept) |-> CleanRow(kept[i])])

\* The comparison made on calendar days, the time of day of now dropped.
InWindowByDay(r) ==
  Instant(r.date, 0) >= (now \div 24) * 24 - timedelta(days)

\* Line 224: processed_df['date'] >= past_date.
InWindow(r) == Instant(r.date, 0) >= now - timedelta(days)

RecencyFilter(df) == SelectSeq(df, InWindow)

(***************************************************************************)
(* fetch_all_feeds: the thread of the caller.                              *)
(***************************************************************************)
\* executor.submit, once per feed in dict order (lines 194-195).
Submit ==
  /\ pc = "submit"
  /\ submitted' = submitted + 1
  /\ fstate' = [fstate EXCEPT ![submitted + 1] = "pending"]
  /\ pc' = IF submitted + 1 = NumFeeds THEN "as_completed" ELSE "submit"
  /\ UNCHANGED fixed
  /\ UNCHANGED <<entries, errors, cur, key, yielded, all_entries, rss_df,
                 arxiv_df, combined_df, processed_df>>

\* Futures taken as soon as they run, not when they are done.
Started(f) == fstate[f] \in {"running", "finished"}

\* What as_completed waits for before it yields a future.
Completed(f) == fstate[f] = "finished"

\* as_completed yields a finished future (lines 197-200).  fetch_single_feed
\* catches every Exception, so future.result() never raises here.
AsCompleted(f) ==
  /\ pc = "as_completed"
  /\ Completed(f)
  /\ f \notin yielded
  /\ cur' = f
  /\ key' = 1
  /\ pc' = "merge"
  /\ UNCHANGED fixed
  /\ UNCHANGED <<submitted, fstate, entries, errors, yielded, all_entries,
                 rss_df, arxiv_df, combined_df, processed_df>>

\* all_entries[key].extend(result[key]) for one key (lines 202-203).
MergeKey ==
  /\ pc = "merge"
  /\ all_entries' = [all_entries EXCEPT ![Keys[key]] = @ \o entries[cur][Keys[key]]]
  /\ IF key = Len(Keys)
     THEN /\ yielded' = yielded \cup {cur}
          /\ cur' = 0
          /\ key' = 0
          /\ pc' = "as_completed"
     ELSE /\ key' = key + 1
          /\ UNCHANGED <<yielded, cur, pc>>
  /\ UNCHANGED fixed
  /\ UNCHANGED <<submitted, fstate, entries, errors, rss_df, arxiv_df,
                 combined_df, processed_df>>

\* The with block is left and line 208 builds rss_df; its ValueError is
\* caught nowhere and reaches the caller.
BuildRssDf ==
  /\ pc = "as_completed"
  /\ yielded = Feeds
  /\ IF DataFrame(all_entries).raise
     THEN /\ pc' = "raised"
          /\ UNCHANGED rss_df
     ELSE /\ rss_df' = DataFrame(all_entries).rows
          /\ pc' = "arxiv"
  /\ UNCHANGED fixed
  /\ UNCHANGED <<submitted, fstate, entries, errors, cur, key, yielded,
                 all_entries, arxiv_df, combined_df, processed_df>>

\* Line 212.
FetchArxiv ==
  /\ pc = "arxiv"
  /\ arxiv_df' = fetch_arxiv_papers(backend.arxiv)
  /\ errors' = IF backend.arxiv.fail # "none" THEN errors \cup {"arXiv"}
               ELSE errors
  /\ pc' = "concat"
  /\ UNCHANGED fixed
  /\ UNCHANGED <<submitted, fstate, entries, cur, key, yielded, all_entries,
                 rss_df, combined_df, processed_df>>

\* Line 215: pd.concat([rss_df, arxiv_df], ignore_index=True).
Concat ==
  /\ pc = "concat"
  /\ combined_df' = rss_df \o arxiv_df
  /\ pc' = "process"
  /\ UNCHANGED fixed
  /\ UNCHANGED <<submitted, fstate, entries, errors, cur, key, yielded,
                 all_entries, rss_df, arxiv_df, processed_df>>

\* Line 218.
Process ==
  /\ pc = "process"
  /\ processed_df' \in process_data(combined_df)
  /\ pc' = "filter"
  /\ UNCHANGED fixed
  /\ UNCHANGED <<submitted, fstate, entries, errors, cur, key, yielded,
                 all_entries, rss_df, arxiv_df, combined_df>>

\* Lines 221-226.
Filter ==
  /\ pc = "filter"
  /\ processed_df' = IF processed_df # <<>> THEN RecencyFilter(processed_df)
                     ELSE processed_df
  /\ pc' = "done"
  /\ UNCHANGED fixed
  /\ UNCHANGED <<submitted, fstate, entries, errors, cur, key, yielded,
                 all_entries, rss_df, arxiv_df, combined_df>>

(***************************************************************************)
(* Specifications.                                                         *)
(***************************************************************************)
\* The state when fetch_all_feeds has executed line 190.
InitCall ==
  /\ submitted = 0
  /\ fstate = [f \in Feeds |-> "nofuture"]
  /\ entries = [f \in Feeds |-> EmptyEntries]
  /\ errors = {}
  /\ pc = "submit"
  /\ cur = 0
  /\ key = 0
  /\ yielded = {}
  /\ all_entries = EmptyEntries
  /\ rss_df = <<>>
  /\ arxiv_df = <<>>
  /\ combined_df = <<>>
  /\ processed_df = <<>>

NoCall == [raised |-> FALSE, rows |-> <<>>]

IdleDate ==
  /\ date_str = <<>>
  /\ date_out = NaT
  /\ date_pc = "idle"

\* 2025-04-20 15:00, the clock of the runs that do not vary it.
Afternoon == Instant(Timestamp(2025, 4, 20), 15)

Midnight == Instant(Timestamp(2025, 4, 20), 0)

\* Every combination of feed outcomes; dates, days and clock fixed.
Init ==
  /\ \E opt \in [Feeds -> FeedOptions], aopt \in ArxivOptions :
       backend = MakeBackend(0, opt, aopt)
  /\ days = 30
  /\ now = Afternoon
  /\ InitCall
  /\ run = 1
  /\ first = NoCall
  /\ IdleDate

\* Every rotation of the dates, two windows, two clocks; only the first
\* feed and arXiv may fail, and the other feeds serve one entry each.
InitData ==
  /\ \E rot \in 0..(Len(Tape) - 1),
        o1 \in {<<MaxEntries, "none">>, <<MaxEntries, "next">>, <<0, "parse">>},
        aopt \in ArxivOptions :
       backend = MakeBackend(rot,
                   [f \in Feeds |-> IF f = 1 THEN o1 ELSE <<1, "none">>],
                   aopt)
  /\ days \in {30, 45}
  /\ now \in {Midnight, Afternoon}
  /\ InitCall
  /\ run = 1
  /\ first = NoCall
  /\ IdleDate

Next ==
  \/ Submit
  \/ \E f \in Feeds : WorkerStart(f)
  \/ \E f \in Feeds : WorkerEntry(f)
  \/ \E f \in Feeds : WorkerReturn(f)
  \/ \E f \in Feeds : AsCompleted(f)
  \/ MergeKey
  \/ BuildRssDf
  \/ FetchArxiv
  \/ Concat
  \/ Process
  \/ Filter

Spec == Init /\ [][Next]_vars

SpecData == InitData /\ [][Next]_vars

\* The caller calls get_ai_medicine_news(days) again, with the same backend
\* and the same clock: every local of fetch_all_feeds is created anew.
CallAgain ==
  /\ run = 1
  /\ pc \in {"done", "raised"}
  /\ first' = [raised |-> pc = "raised", rows |-> processed_df]
  /\ run' = 2
  /\ submitted' = 0
  /\ fstate' = [f \in Feeds |-> "nofuture"]
  /\ entries' = [f \in Feeds |-> EmptyEntries]
  /\ errors' = {}
  /\ pc' = "submit"
  /\ cur' = 0
  /\ key' = 0
  /\ yielded' = {}
  /\ all_entries' = FreshEntries
  /\ rss_df' = <<>>
  /\ arxiv_df' = <<>>
  /\ combined_df' = <<>>
  /\ processed_df' = <<>>
  /\ UNCHANGED <<ivars, dvars>>

\* Two rotations of the dates; each feed serves its entries, fails at the
\* fetch, fails after its first entry, or serves a malformed entry.
InitTwice ==
  /\ \E rot \in {0, 3},
        opt \in [Feeds -> {<<MaxEntries, "none">>, <<0, "parse">>,
                          <<1, "next">>, <<1, "fields">>}],
        aopt \in ArxivOptions :
       backend = MakeBackend(rot, opt, aopt)
  /\ days = 30
  /\ now = Midnight
  /\ InitCall
  /\ run = 1
  /\ first = NoCall
  /\ IdleDate

NextTwice == Next \/ CallAgain

SpecTwice == InitTwice /\ [][NextTwice]_vars

InitDate ==
  /\ date_str \in RawDates
  /\ date_out = NaT
  /\ date_pc = "call"
  /\ backend = MakeBackend(0, [f \in Feeds |-> <<0, "none">>], <<0, "none">>)
  /\ days = 30
  /\ now = Afternoon
  /\ InitCall
  /\ run = 1
  /\ first = NoCall

\* One call of extract_date on the drawn string.
ExtractDateCall ==
  /\ date_pc = "call"
  /\ date_out' = extract_date(date_str)
  /\ date_pc' = "ret"
  /\ UNCHANGED <<date_str, ivars, pvars, run, first>>

NextDate == ExtractDateCall

SpecDate == InitDate /\ [][NextDate]_vars

(***************************************************************************)
(* Properties.                                                             *)
(***************************************************************************)
Range(s) == {s[i] : i \in DOMAIN s}

BagOf(s) == [x \in Range(s) |-> Cardinality({i \in DOMAIN s : s[i] = x})]

RECURSIVE SumBags(_, _)
\* The bag of the values under key k of the accumulators of the feeds in S.
SumBags(S, k) ==
  IF S = {} THEN EmptyBag
  ELSE LET f == CHOOSE g \in S : TRUE
       IN  BagOf(entries[f][k]) (+) SumBags(S \ {f}, k)

Terminal == pc \in {"done", "raised"}

\* The feeds for which "Error fetching ..." was printed.
FailedFeeds == {f \in Feeds : AI_MEDICINE_FEEDS[f] \in errors}

SameLengths(d) == \A k \in DOMAIN d : Len(d[k]) = Len(d.Title)

\* The backend entry a Title names.
EntryOfTitle(title) ==
  IF title[1] = ArxivSource THEN backend.arxiv.entries[title[2]]
  ELSE backend.rss[title[1]].entries[title[2]]

\* An entry whose own date string parses to a date inside the window.
Servable(entry) ==
  /\ "published" \in DOMAIN entry
  /\ extract_date(Chars[entry.published]) # NaT
  /\ Instant(extract_date(Chars[entry.published]), 0) >= now - timedelta(days)

SortedDescending(df) ==
  \A i \in 1..(Len(df) - 1) :
    ToOrdinal(df[i].date) >= ToOrdinal(df[i + 1].date)

\* The rows of the merged frame that survive dropna and the window, cleaned.
Survivors ==
  {CleanRow(combined_df[i]) :
     i \in {k \in DOMAIN combined_df :
              /\ KeepsRow(combined_df[k])
              /\ Instant(DateOfRow(combined_df[k]), 0) >= now - timedelta(days)}}

\* C1: when some but not all feeds failed, the result holds every record,
\* with a parseable date inside the window, of every feed that did not fail.
C1_FeedIsolation ==
  (Terminal /\ FailedFeeds # {} /\ FailedFeeds # Feeds) =>
    \A f \in Feeds \ FailedFeeds :
      \A j \in DOMAIN backend.rss[f].entries :
        Servable(backend.rss[f].entries[j]) =>
          \E i \in DOMAIN processed_df : processed_df[i].Title = <<f, j>>

\* C2: get_ai_medicine_news never raises to its caller.
C2_NeverRaises == pc # "raised"

\* C3: a feed whose fetch-and-parse failed contributes no record to the
\* merged set all_entries.
C3_AllOrNothing ==
  \A f \in FailedFeeds \cap yielded :
    \A i \in DOMAIN all_entries.Title : all_entries.Title[i][1] # f

C5_ValidOwnDate ==
  pc = "done" =>
    \A i \in DOMAIN processed_df :
      LET entry == EntryOfTitle(processed_df[i].Title)
      IN  /\ processed_df[i].date.kind = "ts"
          /\ "published" \in DOMAIN entry
          /\ processed_df[i].date = extract_date(Chars[entry.published])

\* A call that returned records and dropped one with an unparseable date.
C5_Witness ==
  /\ pc = "done"
  /\ processed_df # <<>>
  /\ \E k \in DOMAIN combined_df : ~KeepsRow(combined_df[k])

RECURSIVE StableSortDescending(_)
\* The stable descending sort: equal dates keep their order.
StableSortDescending(rows) ==
  IF rows = <<>> THEN <<>>
  ELSE LET top == CHOOSE i \in DOMAIN rows :
                    /\ \A j \in DOMAIN rows :
                         ToOrdinal(rows[i].date) >= ToOrdinal(rows[j].date)
                    /\ \A j \in 1..(i - 1) :
                         ToOrdinal(rows[j].date) < ToOrdinal(rows[i].date)
       IN  <<rows[top]>> \o StableSortDescending(RemoveAt(rows, top))

\* C6 as stated: the result is the stable descending sort of the merged
\* rows that survive, so equal dates keep the merge order.
C6_StableDescending ==
  pc = "done" =>
    LET kept == SelectSeq(combined_df, KeepsRow)
        cleaned == [i \in 1..Len(kept) |-> CleanRow(kept[i])]
    IN  processed_df = RecencyFilter(StableSortDescending(cleaned))

\* C6 amended: the frame process_data returns and the frame the filter
\* returns are in descending date order, and the result holds exactly the
\* surviving rows, each once; the order of rows with equal dates is free.
C6_SortedDescending ==
  /\ pc \in {"filter", "done"} => SortedDescending(processed_df)
  /\ pc = "done" =>
       /\ Range(processed_df) = Survivors
       /\ Len(processed_df) = Cardinality(Survivors)

\* A result where two rows of equal date are in the reverse of merge order.
C6_Witness ==
  /\ pc = "done"
  /\ \E i, j \in DOMAIN processed_df :
       /\ i < j
       /\ processed_df[i].date = processed_df[j].date
       /\ \E a, b \in DOMAIN combined_df :
            /\ a > b
            /\ combined_df[a].Title = processed_df[i].Title
            /\ combined_df[b].Title = processed_df[j].Title

\* C8: a second call with the same days, clock and backend ends as the
\* first did and returns the same records, both in descending date order.
C8_SameShape ==
  (run = 2 /\ Terminal) =>
    /\ (pc = "raised") = first.raised
    /\ BagOf(processed_df) = BagOf(first.rows)
    /\ SortedDescending(processed_df)
    /\ SortedDescending(first.rows)

\* Two calls that returned the same records in different orders.
C8_Witness ==
  /\ run = 2
  /\ pc = "done"
  /\ Len(processed_df) >= 2
  /\ processed_df # first.rows

\* The feeds whose values under Keys[n] are in all_entries.
MergedFor(n) == yielded \cup (IF cur # 0 /\ n < key THEN {cur} ELSE {})

C9_State ==
  /\ cur # 0 <=> pc = "merge"
  /\ cur # 0 => Completed(cur) /\ cur \notin yielded
  /\ \A f \in yielded : fstate[f] = "finished"
  /\ \A n \in DOMAIN Keys :
       BagOf(all_entries[Keys[n]]) = SumBags(MergedFor(n), Keys[n])
  /\ pc \in {"arxiv", "concat", "process", "filter", "done", "raised"} =>
       /\ yielded = Feeds
       /\ \A f \in Feeds : fstate[f] = "finished"
  /\ pc \in {"submit", "as_completed", "merge"} =>
       rss_df = <<>> /\ arxiv_df = <<>> /\ processed_df = <<>>

C9_Step ==
  /\ all_entries' # all_entries =>
       /\ pc = "merge"
       /\ fstate[cur] = "finished"
       /\ entries' = entries
  /\ \A f \in Feeds :
       entries'[f] # entries[f] =>
         /\ fstate[f] \in {"pending", "running"}
         /\ cur # f
         /\ f \notin yielded
         /\ all_entries' = all_entries
         /\ \A g \in Feeds \ {f} : entries'[g] = entries[g]

\* C9: only the merge loop writes all_entries, it merges one finished
\* worker at a time, a worker writes its own accumulator only and never
\* once it is finished, all_entries always holds exactly the values of the
\* merged accumulators, and the arXiv fetch and the frames come after every
\* worker has finished.
C9_NoWriteHazard == []C9_State /\ [][C9_Step]_vars

\* A merge in progress while another worker, with records, still runs.
C9_Witness ==
  /\ pc = "merge"
  /\ key > 1
  /\ \E f \in Feeds :
       /\ fstate[f] = "running"
       /\ entries[f].Title # <<>>

\* C10: the five lists have one length in the dict every finished worker
\* returned and in all_entries when the frame is built from it.
C10_RecordShape ==
  /\ \A f \in Feeds : fstate[f] = "finished" => SameLengths(entries[f])
  /\ (pc = "as_completed" /\ yielded = Feeds) => SameLengths(all_entries)

(***************************************************************************)
(* The shapes of date strings, stated on positions instead of by running   *)
(* the matcher.                                                            *)
(***************************************************************************)
AllIn(s, i, j, cls) ==
  /\ i >= 1
  /\ j <= Len(s) + 1
  /\ \A k \in i..(j - 1) : ClassMatch(cls, s[k])

DateOrNaT(y, m, d) == IF ValidDate(y, m, d) THEN Timestamp(y, m, d) ELSE NaT

\* The dates read from "<day> <mon> <year>" beginning at position i: one
\* or two digits, blanks, three word characters, blanks, four digits.
DayMonYearDates(s, i) ==
  {DateOrNaT(StrToInt(Slice(s, q[3] + 3 + q[4], q[3] + 3 + q[4] + 4)),
             MonthOf(Slice(s, q[3], q[3] + 3)),
             StrToInt(Slice(s, i, q[1]))) :
     q \in {r \in {<<a, b - a, b, d>> :
                     a \in {i + 1, i + 2}, b \in (i + 2)..Len(s), d \in 1..Len(s)} :
              /\ AllIn(s, i, r[1], "\\d")
              /\ r[2] >= 1
              /\ AllIn(s, r[1], r[3], "\\s")
              /\ AllIn(s, r[3], r[3] + 3, "\\w")
              /\ AllIn(s, r[3] + 3, r[3] + 3 + r[4], "\\s")
              /\ AllIn(s, r[3] + 3 + r[4], r[3] + 3 + r[4] + 4, "\\d")}}

\* Whether "YYYY-MM-DD" begins at position i, and the date it reads.
IsoShapeAt(s, i) ==
  /\ AllIn(s, i, i + 4, "\\d")
  /\ AllIn(s, i + 4, i + 5, "-")
  /\ AllIn(s, i + 5, i + 7, "\\d")
  /\ AllIn(s, i + 7, i + 8, "-")
  /\ AllIn(s, i + 8, i + 10, "\\d")

IsoShapeDate(s, i) ==
  DateOrNaT(StrToInt(Slice(s, i, i + 4)), StrToInt(Slice(s, i + 5, i + 7)),
            StrToInt(Slice(s, i + 8, i + 10)))

\* The positions where the string begins "<day> <mon> <year>" once an
\* optional "<weekday>, " is passed.
FormStarts(s) ==
  {1} \cup {q \in 3..Len(s) :
             \E c \in 2..(q - 2) :
               /\ AllIn(s, 1, c, "\\w")
               /\ s[c] = ","
               /\ AllIn(s, c + 1, q, "\\s")}

\* The dates of a string of the form "[<weekday>, ]<day> <mon> <year>...".
RfcFormDates(s) == UNION {DayMonYearDates(s, i) : i \in FormStarts(s)}

AnyStarts(s) == {i \in 1..Len(s) : DayMonYearDates(s, i) # {}}

IsoStarts(s) == {i \in 1..Len(s) : IsoShapeAt(s, i)}

Least(S) == CHOOSE i \in S : \A j \in S : i <= j

\* C7 as stated: a string of the form "[<weekday>, ]<day> <mon> <year>..."
\* or "<year>-<month>-<day>..." gets exactly that date (NaT if it is no
\* calendar date), and every other string gets NaT.
C7_TotalExact ==
  date_pc = "ret" =>
    IF RfcFormDates(date_str) # {} THEN date_out \in RfcFormDates(date_str)
    ELSE IF IsoShapeAt(date_str, 1) THEN date_out = IsoShapeDate(date_str, 1)
    ELSE date_out = NaT

\* C7 amended: the patterns are searched anywhere in the string.  If
\* "<day> <mon> <year>" occurs, the leftmost occurrence decides: its date,
\* or NaT if it is no calendar date, and the ISO pattern is not tried.
\* Otherwise the leftmost "YYYY-MM-DD" decides in the same way; otherwise
\* NaT.  So a string of the first form always gets exactly its date, a
\* string of the ISO form does when no "<day> <mon> <year>" follows in it.
C7_LeftmostMatch ==
  date_pc = "ret" =>
    /\ IF AnyStarts(date_str) # {}
       THEN date_out \in DayMonYearDates(date_str, Least(AnyStarts(date_str)))
       ELSE IF IsoStarts(date_str) # {}
       THEN date_out = IsoShapeDate(date_str, Least(IsoStarts(date_str)))
       ELSE date_out = NaT
    /\ RfcFormDates(date_str) # {} => date_out \in RfcFormDates(date_str)
    /\ (IsoShapeAt(date_str, 1) /\ AnyStarts(date_str) = {}) =>
         date_out = IsoShapeDate(date_str, 1)

\* A string of neither form that got a date from a match further in.
C7_Witness ==
  /\ date_pc = "ret"
  /\ date_out.kind = "ts"
  /\ RfcFormDates(date_str) = {}
  /\ ~IsoShapeAt(date_str, 1)

=============================================================================
